---- MODULE Spec2Model ----
(***************************************************************************)
(* AmIOkay: the App / Quiz / Results React components.                     *)
(*                                                                         *)
(* App holds screen, quizData, selectedSymptoms and selectedStage; Quiz    *)
(* holds step, selectedStage, selectedSymptoms (a Set) and currentCategory;*)
(* Results is a function of its props that derives the prevalence rows,    *)
(* the co-occurring symptoms and the specialist matches.                   *)
(*                                                                         *)
(* JavaScript values are modelled as follows: an array is a sequence, an   *)
(* object is a function whose domain is a set of strings (property keys    *)
(* are strings, so a numeric id is converted with ToString before it is    *)
(* used as a key), a possibly-undefined property value is a set with at    *)
(* most one element, null is the record NullValue.                         *)
(* The severity chart and the stats header of Results only format values   *)
(* for display and are not modelled.                                       *)
(***************************************************************************)
EXTENDS Integers, Sequences, FiniteSets, TLC

VARIABLES screen, quizData, selectedSymptoms, selectedStage,
          step, quizStage, quizSymptoms, currentCategory, rendered

vars == <<screen, quizData, selectedSymptoms, selectedStage,
          step, quizStage, quizSymptoms, currentCategory, rendered>>

-----------------------------------------------------------------------------
(* Bounds of the model *)

MaxSelLen == 3
MaxPct == 3
NumStages == 2

\* the symptom ids the lookup tables and the selections range over
SymptomIds == {1, 2}

(* Program constants *)

MinSupport == 2
RelatedTopN == 5
SpecialistTopN == 3

\* one more than each top-N, so that truncation happens
NumCandidates == RelatedTopN + 1
NumSpecialists == SpecialistTopN + 1

\* ids that are never selected hubs: the candidates of the co-occurrence tables
Candidates == 3..(2 + NumCandidates)

MaxId == 2 + NumCandidates

-----------------------------------------------------------------------------
(* JavaScript helpers *)

NullValue == [null |-> TRUE]

EmptyObject == <<>>

Min(a, b) == IF a < b THEN a ELSE b

Range(s) == {s[i] : i \in DOMAIN s}

\* obj[key] || {} : the entry under key, or an empty object
Lookup(obj, key) == IF key \in DOMAIN obj THEN obj[key] ELSE EmptyObject

\* obj.field as a set: {} is undefined, {v} is the value v
Prop(obj, field) == IF field \in DOMAIN obj THEN {obj[field]} ELSE {}

\* a || b on possibly-undefined numbers: undefined and 0 are falsy
OrElseNum(a, b) == IF a # {} /\ a # {0} THEN a ELSE b

\* a || b on possibly-undefined strings: undefined and '' are falsy
OrElseStr(a, b) == IF a # {} /\ a # {""} THEN a ELSE b

ValueOf(v) == CHOOSE x \in v : TRUE

\* Array.prototype.slice(0, n)
Slice(s, n) == SubSeq(s, 1, Min(n, Len(s)))

\* Array.prototype.filter
RECURSIVE Filter(_, _)
Filter(s, keep) ==
  IF s = <<>> THEN <<>>
  ELSE LET rest == Filter(Tail(s), keep)
       IN IF Head(s) \in keep THEN <<Head(s)>> \o rest ELSE rest

\* one step of a stable insertion: x goes after every element whose key is
\* not smaller than its own
InsertDesc(sorted, x, field) ==
  LET k == Cardinality({i \in DOMAIN sorted : sorted[i][field] >= x[field]})
  IN SubSeq(sorted, 1, k) \o <<x>> \o SubSeq(sorted, k + 1, Len(sorted))

\* Array.prototype.sort((a, b) => b[field] - a[field]) : stable, descending
RECURSIVE SortDesc(_, _)
SortDesc(s, field) ==
  IF s = <<>> THEN <<>>
  ELSE InsertDesc(SortDesc(SubSeq(s, 1, Len(s) - 1), field), s[Len(s)], field)

\* Math.round(total / count) for total >= 0, count > 0
RoundDiv(total, count) == (2 * total + count) \div (2 * count)

-----------------------------------------------------------------------------
(* Results: prevalence of the selected symptoms *)

\* `Symptom ${id}` for an id already converted to a string
PlaceholderName(key) == "Symptom " \o key

\* the object built for one selected id
PrevalenceRow(id, prevalence, stagePrevalence) ==
  LET overall == Lookup(prevalence, ToString(id))
      byStage == Lookup(stagePrevalence, ToString(id))
  IN [symptom_id |-> id,
      symptom_name |->
        ValueOf(OrElseStr(Prop(overall, "symptom_name"), {PlaceholderName(ToString(id))})),
      category_icon |-> ValueOf(OrElseStr(Prop(overall, "category_icon"), {""})),
      percentage |->
        ValueOf(OrElseNum(OrElseNum(Prop(byStage, "percentage"), Prop(overall, "percentage")), {0})),
      overall_percentage |-> ValueOf(OrElseNum(Prop(overall, "percentage"), {0}))]

\* prevalenceByStage[String(selectedStage.stage_id)] || {}
StagePrevalence(stage, data) == Lookup(data.prevalenceByStage, ToString(stage.stage_id))

PrevalenceResultsUnsorted(sel, stage, data) ==
  [i \in DOMAIN sel |-> PrevalenceRow(sel[i], data.prevalence, StagePrevalence(stage, data))]

\* selectedSymptoms.map(...).sort((a, b) => b.percentage - a.percentage)
PrevalenceResults(sel, stage, data) ==
  SortDesc([i \in DOMAIN sel |->
              PrevalenceRow(sel[i], data.prevalence, StagePrevalence(stage, data))],
           "percentage")

-----------------------------------------------------------------------------
(* Results: co-occurring symptoms the user did not select *)

\* new Set(selectedSymptoms)
SelectedSet(sel) == Range(sel)

\* if (!coocScores[id]) coocScores[id] = {total: 0, count: 0}; total += pct; count += 1
Accumulate(scores, id, pct) ==
  LET key == ToString(id)
  IN IF key \in DOMAIN scores
     THEN [scores EXCEPT ![key] = [total |-> @.total + pct, count |-> @.count + 1]]
     ELSE scores @@ (key :> [total |-> pct, count |-> 1])

\* the body of cooccurrences.forEach for one row
ScanRowKeepingSelected(scores, row, selectedSet) ==
  LET first == IF row.symptom_id_a \in selectedSet
               THEN Accumulate(scores, row.symptom_id_b, row.co_occurrence_pct)
               ELSE scores
  IN IF row.symptom_id_b \in selectedSet
     THEN Accumulate(first, row.symptom_id_a, row.co_occurrence_pct)
     ELSE first
ScanRow(scores, row, selectedSet) ==
  LET first == IF row.symptom_id_a \in selectedSet /\ row.symptom_id_b \notin selectedSet
               THEN Accumulate(scores, row.symptom_id_b, row.co_occurrence_pct)
               ELSE scores
  IN IF row.symptom_id_b \in selectedSet /\ row.symptom_id_a \notin selectedSet
     THEN Accumulate(first, row.symptom_id_a, row.co_occurrence_pct)
     ELSE first

RECURSIVE ScanRows(_, _, _)
ScanRows(scores, rows, selectedSet) ==
  IF rows = <<>> THEN scores
  ELSE ScanRows(ScanRow(scores, Head(rows), selectedSet), Tail(rows), selectedSet)

CoocScores(sel, data) == ScanRows(EmptyObject, data.cooccurrences, SelectedSet(sel))

\* the number a canonical integer property key stands for
KeyToNum(key) == CHOOSE n \in 0..MaxId : ToString(n) = key

\* Object.entries: integer keys come in ascending numeric order
RECURSIVE EntriesOf(_, _)
EntriesOf(obj, keys) ==
  IF keys = {} THEN <<>>
  ELSE LET k == CHOOSE x \in keys : \A y \in keys : KeyToNum(x) <= KeyToNum(y)
       IN <<[key |-> k, value |-> obj[k]]>> \o EntriesOf(obj, keys \ {k})

Entries(obj) == EntriesOf(obj, DOMAIN obj)

\* .filter(([_, v]) => v.count >= 2)
SupportedEntries(scores) ==
  LET Supported(e) == e.value.count >= MinSupport
  IN SelectSeq(Entries(scores), Supported)

\* .map(([id, v]) => ({symptom_name, icon, avg_pct}))
SuggestionRow(e, prevalence) ==
  LET overall == Lookup(prevalence, e.key)
  IN [symptom_name |->
        ValueOf(OrElseStr(Prop(overall, "symptom_name"), {PlaceholderName(e.key)})),
      icon |-> ValueOf(OrElseStr(Prop(overall, "category_icon"), {""})),
      avg_pct |-> RoundDiv(e.value.total, e.value.count)]

\* Object.entries(coocScores).filter(...).map(...)
\*   .sort((a, b) => b.avg_pct - a.avg_pct).slice(0, 5)
CooccurringSymptoms(sel, data) ==
  LET kept == SupportedEntries(CoocScores(sel, data))
  IN Slice(SortDesc([i \in DOMAIN kept |-> SuggestionRow(kept[i], data.prevalence)],
                    "avg_pct"),
           RelatedTopN)

-----------------------------------------------------------------------------
(* Results: specialist matches *)

\* matched.map(id => prevalence[String(id)]?.symptom_name || '')
MatchedNames(matched, prevalence) ==
  [i \in DOMAIN matched |->
     ValueOf(OrElseStr(Prop(Lookup(prevalence, ToString(matched[i])), "symptom_name"), {""}))]

\* spec.symptom_ids.filter(id => selectedSet.has(id))
MatchedFromSelection(spec, sel) == Filter(sel, Range(spec.symptom_ids))
Matched(spec, sel) == Filter(spec.symptom_ids, SelectedSet(sel))

\* { ...spec, matched, matchedNames, score: matched.length }
SpecScore(spec, sel, prevalence) ==
  [specialist_id |-> spec.specialist_id,
   symptom_ids |-> spec.symptom_ids,
   matched |-> Matched(spec, sel),
   matchedNames |-> MatchedNames(Matched(spec, sel), prevalence),
   score |-> Len(Matched(spec, sel))]

AllSpecScores(sel, data) ==
  [i \in DOMAIN data.specialists |-> SpecScore(data.specialists[i], sel, data.prevalence)]

\* .filter(s => s.score > 0).sort((a, b) => b.score - a.score).slice(0, 3)
SpecScoresSlicedBeforeSort(sel, data) ==
  LET Positive(s) == s.score > 0
  IN SortDesc(Slice(SelectSeq(AllSpecScores(sel, data), Positive), SpecialistTopN), "score")
SpecScores(sel, data) ==
  LET Positive(s) == s.score > 0
  IN Slice(SortDesc(SelectSeq(AllSpecScores(sel, data), Positive), "score"), SpecialistTopN)

-----------------------------------------------------------------------------
(* Results: the whole render *)

NotRendered == [status |-> "none"]

\* String(selectedStage.stage_id) throws a TypeError when selectedStage is null
Results(sel, stage, data) ==
  IF stage = NullValue
  THEN [status |-> "TypeError"]
  ELSE [status |-> "ok",
        prevalenceResults |-> PrevalenceResults(sel, stage, data),
        cooccurringSymptoms |-> CooccurringSymptoms(sel, data),
        specScores |-> SpecScores(sel, data)]

\* what the render leaves in the selectedSymptoms prop: map and new Set read
\* it, sort and slice act on the arrays map and filter returned
SelectedAfterRenderSortedInPlace(sel, stage, data) ==
  IF stage = NullValue THEN sel
  ELSE [i \in DOMAIN sel |-> PrevalenceResults(sel, stage, data)[i].symptom_id]
SelectedAfterRender(sel, stage, data) == sel

\* what the render leaves in the data prop: forEach, map, filter and the
\* spread read it, sort and slice act on the arrays map returned
DataAfterRender(sel, stage, data) == data

-----------------------------------------------------------------------------
(* Quiz *)

\* toggleSymptom on a Set, kept in insertion order
Toggle(set, id) ==
  IF id \in Range(set)
  THEN LET Other(x) == x # id IN SelectSeq(set, Other)
  ELSE Append(set, id)

\* disabled={selectedSymptoms.size === 0}
SeeResultsNeverDisabled(set) == FALSE
SeeResultsDisabled(set) == Len(set) = 0

\* Array.from(selectedSymptoms)
ArrayFrom(set) == set

-----------------------------------------------------------------------------
(* Datasets *)

SymptomName(id) == "S" \o ToString(id)

PrevalenceEntry(id, pct) ==
  [symptom_name |-> SymptomName(id), category_icon |-> "icon", percentage |-> pct]

Percentages == 0..MaxPct

\* prevalence_overall.json: any subset of the ids, any percentage each
PrevalenceTables(ids) ==
  UNION {{[k \in {ToString(i) : i \in D} |-> PrevalenceEntry(KeyToNum(k), p[KeyToNum(k)])]
            : p \in [D -> Percentages]} : D \in SUBSET ids}

\* one stage of prevalence_by_stage.json
StageTables(ids) ==
  UNION {{[k \in {ToString(i) : i \in D} |-> [percentage |-> p[KeyToNum(k)]]]
            : p \in [D -> Percentages]} : D \in SUBSET ids}

\* prevalence_by_stage.json: no stage at all, or figures for the first stage only
ByStageTables == {EmptyObject} \cup {(ToString(1) :> t) : t \in StageTables(SymptomIds)}

StageList == [s \in 1..NumStages |-> [stage_id |-> s]]

QuizStructure == <<[symptoms |-> <<1, 2>>], [symptoms |-> <<3>>]>>

Row(a, b, pct) == [symptom_id_a |-> a, symptom_id_b |-> b, co_occurrence_pct |-> pct]

NamedPrevalence(ids) ==
  [k \in {ToString(i) : i \in ids} |-> PrevalenceEntry(KeyToNum(k), 1)]

BaseData ==
  [structure |-> QuizStructure,
   stages |-> StageList,
   prevalence |-> NamedPrevalence({1, 2, 3}),
   prevalenceByStage |-> EmptyObject,
   cooccurrences |-> <<>>,
   specialists |-> <<>>]

\* the selections a caller may hand to Results: duplicates allowed
Selections == UNION {[1..n -> SymptomIds] : n \in 0..MaxSelLen}

StageChoices == {NullValue} \cup Range(StageList)

\* the rows that mention candidate y, by shape: none; one row; two rows from
\* two selected symptoms (mean x.5, mean exact); two rows that mention the
\* same symptom in both directions; three rows
RowProfiles == {"none", "single", "pair", "low pair", "both directions", "triple"}

ProfileRows(y, profile) ==
  CASE profile = "none" -> <<>>
    [] profile = "single" -> <<Row(1, y, MaxPct)>>
    [] profile = "pair" -> <<Row(1, y, 1), Row(2, y, 2)>>
    [] profile = "low pair" -> <<Row(1, y, 1), Row(2, y, 1)>>
    [] profile = "both directions" -> <<Row(1, y, MaxPct), Row(y, 1, MaxPct)>>
    [] profile = "triple" -> <<Row(1, y, 1), Row(2, y, 1), Row(y, 2, 2)>>

RECURSIVE Flatten(_)
Flatten(ss) == IF ss = <<>> THEN <<>> ELSE Head(ss) \o Flatten(Tail(ss))

\* cooccurrences.json: for every candidate one of its row profiles
CooccurrenceTables ==
  {Flatten([i \in 1..NumCandidates |-> ProfileRows(i + 2, f[i + 2])]) :
     f \in [Candidates -> RowProfiles]}

CoocSelections == {<<>>, <<1>>, <<1, 2>>, <<1, 3>>, <<2, 1, 3>>}

\* a specialist's symptom_ids: no id twice (the map's primary key)
SymptomIdLists == {<<>>, <<1>>, <<2>>, <<1, 2>>}

SpecialistLists ==
  {[i \in 1..NumSpecialists |-> [specialist_id |-> i, symptom_ids |-> f[i]]] :
     f \in [1..NumSpecialists -> SymptomIdLists]}

Props(sel, stage, data) ==
  /\ selectedSymptoms = sel
  /\ selectedStage = stage
  /\ quizData = data

\* props that vary the prevalence tables and the stage
PrevalenceInputs ==
  \E s \in Selections, st \in StageChoices,
     p \in PrevalenceTables(SymptomIds), b \in ByStageTables :
       Props(s, st, [BaseData EXCEPT !.prevalence = p, !.prevalenceByStage = b])

\* props that vary the co-occurrence rows
CooccurrenceInputs ==
  \E s \in CoocSelections, c \in CooccurrenceTables :
       Props(s, StageList[1], [BaseData EXCEPT !.cooccurrences = c])

\* props that vary the specialists and the names the lookup knows
SpecialistInputs ==
  \E s \in Selections, l \in SpecialistLists, D \in SUBSET SymptomIds :
       Props(s, StageList[1],
             [BaseData EXCEPT !.specialists = l, !.prevalence = NamedPrevalence(D)])

-----------------------------------------------------------------------------
(* The Results component on its own: any props, one render *)

QuizUnmounted ==
  /\ step = "stage"
  /\ quizStage = NullValue
  /\ quizSymptoms = <<>>
  /\ currentCategory = 0

InitResults ==
  /\ screen = "results"
  /\ rendered = NotRendered
  /\ QuizUnmounted
  /\ \/ PrevalenceInputs
     \/ CooccurrenceInputs
     \/ SpecialistInputs

RenderResults ==
  /\ screen = "results"
  /\ rendered = NotRendered
  /\ rendered' = Results(selectedSymptoms, selectedStage, quizData)
  /\ selectedSymptoms' = SelectedAfterRender(selectedSymptoms, selectedStage, quizData)
  /\ quizData' = DataAfterRender(selectedSymptoms, selectedStage, quizData)
  /\ UNCHANGED <<screen, selectedStage, step, quizStage, quizSymptoms, currentCategory>>

NextResults == RenderResults

SpecResults == InitResults /\ [][NextResults]_vars

-----------------------------------------------------------------------------
(* The App *)

\* the data the eight fetches deliver
SampleData ==
  [BaseData EXCEPT
     !.prevalence = NamedPrevalence({1, 2}),
     !.prevalenceByStage = (ToString(1) :> (ToString(1) :> [percentage |-> MaxPct])),
     !.cooccurrences = <<Row(1, 3, 1), Row(2, 3, MaxPct), Row(1, 2, 1)>>,
     !.specialists = <<[specialist_id |-> 1, symptom_ids |-> <<1, 2, 3>>],
                       [specialist_id |-> 2, symptom_ids |-> <<1>>]>>]

Categories == quizData.structure

\* useState initial values
Init ==
  /\ screen = "landing"
  /\ quizData = NullValue
  /\ selectedSymptoms = <<>>
  /\ selectedStage = NullValue
  /\ rendered = NotRendered
  /\ QuizUnmounted

\* a freshly mounted or unmounted Quiz holds its useState initial values
QuizReset ==
  /\ step' = "stage"
  /\ quizStage' = NullValue
  /\ quizSymptoms' = <<>>
  /\ currentCategory' = 0

\* useEffect loadData: setQuizData
LoadData ==
  /\ quizData = NullValue
  /\ quizData' = SampleData
  /\ UNCHANGED <<screen, selectedSymptoms, selectedStage, step, quizStage,
                 quizSymptoms, currentCategory, rendered>>

\* Landing onStart
Start ==
  /\ quizData # NullValue
  /\ screen = "landing"
  /\ screen' = "quiz"
  /\ QuizReset
  /\ UNCHANGED <<quizData, selectedSymptoms, selectedStage, rendered>>

\* Quiz onBack, offered on the stage step
BackToLanding ==
  /\ screen = "quiz"
  /\ step = "stage"
  /\ screen' = "landing"
  /\ QuizReset
  /\ UNCHANGED <<quizData, selectedSymptoms, selectedStage, rendered>>

\* a stage card: setSelectedStage(stage)
SelectStage ==
  /\ screen = "quiz"
  /\ step = "stage"
  /\ \E i \in DOMAIN quizData.stages : quizStage' = quizData.stages[i]
  /\ UNCHANGED <<screen, quizData, selectedSymptoms, selectedStage, step,
                 quizSymptoms, currentCategory, rendered>>

\* "Next -> Select Symptoms", rendered only when selectedStage is set
NextToSymptoms ==
  /\ screen = "quiz"
  /\ step = "stage"
  /\ quizStage # NullValue
  /\ step' = "symptoms"
  /\ UNCHANGED <<screen, quizData, selectedSymptoms, selectedStage, quizStage,
                 quizSymptoms, currentCategory, rendered>>

\* a symptom card of the current category
ToggleSymptom ==
  /\ screen = "quiz"
  /\ step = "symptoms"
  /\ \E id \in Range(Categories[currentCategory + 1].symptoms) :
       quizSymptoms' = Toggle(quizSymptoms, id)
  /\ UNCHANGED <<screen, quizData, selectedSymptoms, selectedStage, step,
                 quizStage, currentCategory, rendered>>

\* the back button of the symptoms step
Back ==
  /\ screen = "quiz"
  /\ step = "symptoms"
  /\ IF currentCategory > 0
     THEN currentCategory' = currentCategory - 1 /\ step' = step
     ELSE step' = "stage" /\ currentCategory' = currentCategory
  /\ UNCHANGED <<screen, quizData, selectedSymptoms, selectedStage, quizStage,
                 quizSymptoms, rendered>>

\* "Next Category"
NextCategoryOffByOne ==
  /\ screen = "quiz"
  /\ step = "symptoms"
  /\ currentCategory < Len(Categories)
  /\ currentCategory' = currentCategory + 1
  /\ UNCHANGED <<screen, quizData, selectedSymptoms, selectedStage, step,
                 quizStage, quizSymptoms, rendered>>
NextCategory ==
  /\ screen = "quiz"
  /\ step = "symptoms"
  /\ currentCategory < Len(Categories) - 1
  /\ currentCategory' = currentCategory + 1
  /\ UNCHANGED <<screen, quizData, selectedSymptoms, selectedStage, step,
                 quizStage, quizSymptoms, rendered>>

\* "See My Results": onComplete(Array.from(selectedSymptoms), selectedStage),
\* which is handleQuizComplete; the Quiz is unmounted
Complete ==
  /\ screen = "quiz"
  /\ step = "symptoms"
  /\ ~(currentCategory < Len(Categories) - 1)
  /\ ~SeeResultsDisabled(quizSymptoms)
  /\ selectedSymptoms' = ArrayFrom(quizSymptoms)
  /\ selectedStage' = quizStage
  /\ screen' = "results"
  /\ QuizReset
  /\ UNCHANGED <<quizData, rendered>>

\* "Take the Quiz Again", a button of the rendered Results
HandleRestart ==
  /\ screen = "results"
  /\ rendered.status = "ok"
  /\ selectedSymptoms' = <<>>
  /\ selectedStage' = NullValue
  /\ screen' = "landing"
  /\ rendered' = NotRendered
  /\ UNCHANGED <<quizData, step, quizStage, quizSymptoms, currentCategory>>

Next ==
  \/ LoadData
  \/ Start
  \/ BackToLanding
  \/ SelectStage
  \/ NextToSymptoms
  \/ ToggleSymptom
  \/ Back
  \/ NextCategory
  \/ Complete
  \/ RenderResults
  \/ HandleRestart

Spec == Init /\ [][Next]_vars

-----------------------------------------------------------------------------
(* Properties of Results, checked under SpecResults *)

AllIds == 1..MaxId

Rendered == rendered.status = "ok"

NoDuplicates(s) == \A i, j \in DOMAIN s : s[i] = s[j] => i = j

NonIncreasing(s, field) ==
  \A i \in DOMAIN s : i + 1 \in DOMAIN s => s[i][field] >= s[i + 1][field]

\* the name a suggestion row carries for symptom y
DisplayName(y) ==
  IF ToString(y) \in DOMAIN quizData.prevalence
  THEN quizData.prevalence[ToString(y)].symptom_name
  ELSE "Symptom " \o ToString(y)

Suggested(y) ==
  \E i \in DOMAIN rendered.cooccurringSymptoms :
     rendered.cooccurringSymptoms[i].symptom_name = DisplayName(y)

\* the rows that are evidence for candidate y: one side selected, the other y
EvidenceRows(y) ==
  {i \in DOMAIN quizData.cooccurrences :
     LET row == quizData.cooccurrences[i]
     IN \/ row.symptom_id_a \in Range(selectedSymptoms) /\ row.symptom_id_b = y
        \/ row.symptom_id_b \in Range(selectedSymptoms) /\ row.symptom_id_a = y}

\* the distinct selected symptoms that give evidence for candidate y
Supporters(y) ==
  {s \in Range(selectedSymptoms) :
     \E i \in EvidenceRows(y) :
        LET row == quizData.cooccurrences[i]
        IN row.symptom_id_a = s \/ row.symptom_id_b = s}

\* C1: a suggested symptom has co-occurrence evidence from at least 2
\* distinct selected symptoms; a candidate whose rows all involve the same
\* selected symptom is not suggested.
C1_DistinctSupport ==
  Rendered =>
    \A y \in AllIds \ Range(selectedSymptoms) :
       Suggested(y) => Cardinality(Supporters(y)) >= MinSupport

\* the stage table Results consults, by presence
StageTableOf(stage) ==
  IF ToString(stage.stage_id) \in DOMAIN quizData.prevalenceByStage
  THEN quizData.prevalenceByStage[ToString(stage.stage_id)]
  ELSE EmptyObject

\* C2: the effective percentage of a prevalence row is the stage percentage
\* when a (stage, id) entry exists (0 included), the overall percentage when
\* only the overall entry exists, and 0 with the name "Symptom {id}" when
\* the id is in neither table; overall_percentage is the overall percentage,
\* 0 if absent.
C2_FallbackByPresence ==
  Rendered =>
    \A i \in DOMAIN rendered.prevalenceResults :
       LET r == rendered.prevalenceResults[i]
           k == ToString(r.symptom_id)
           inStage == k \in DOMAIN StageTableOf(selectedStage)
           inOverall == k \in DOMAIN quizData.prevalence
       IN /\ r.percentage =
               IF inStage THEN StageTableOf(selectedStage)[k].percentage
               ELSE IF inOverall THEN quizData.prevalence[k].percentage
               ELSE 0
          /\ (~inStage /\ ~inOverall) => r.symptom_name = "Symptom " \o k
          /\ r.overall_percentage =
               IF inOverall THEN quizData.prevalence[k].percentage ELSE 0

\* C3: a selection with a repeated id yields exactly one prevalence row per
\* distinct selected id.
C3_DuplicatesCollapsed ==
  Rendered =>
    /\ Len(rendered.prevalenceResults) = Cardinality(Range(selectedSymptoms))
    /\ \A i, j \in DOMAIN rendered.prevalenceResults :
          rendered.prevalenceResults[i].symptom_id = rendered.prevalenceResults[j].symptom_id
            => i = j

\* the spec's end-to-end scenario with 30, 40, 70 written 1, 2, 3
ScenarioProps ==
  /\ selectedSymptoms = <<1, 2>>
  /\ selectedStage = StageList[1]
  /\ quizData.prevalence =
       (ToString(1) :> PrevalenceEntry(1, 1)) @@ (ToString(2) :> PrevalenceEntry(2, 3))
  /\ quizData.prevalenceByStage = (ToString(1) :> (ToString(1) :> [percentage |-> 2]))

\* C4: the prevalence list has a row for every selected id and is ordered by
\* effective percentage, non-increasing; in the scenario it is id 2 at the
\* overall figure followed by id 1 at the stage figure.
C4_PrevalenceRanked ==
  Rendered =>
    /\ \A id \in Range(selectedSymptoms) :
          \E i \in DOMAIN rendered.prevalenceResults :
             rendered.prevalenceResults[i].symptom_id = id
    /\ NonIncreasing(rendered.prevalenceResults, "percentage")
    /\ ScenarioProps =>
          /\ Len(rendered.prevalenceResults) = 2
          /\ rendered.prevalenceResults[1].symptom_id = 2
          /\ rendered.prevalenceResults[1].percentage = 3
          /\ rendered.prevalenceResults[2].symptom_id = 1
          /\ rendered.prevalenceResults[2].percentage = 2

C4_Witness == Rendered /\ ScenarioProps

\* the number of selected symptoms among a specialist's symptom ids
MatchCount(spec) == Cardinality(Range(spec.symptom_ids) \cap Range(selectedSymptoms))

Returned(spec) ==
  \E i \in DOMAIN rendered.specScores :
     rendered.specScores[i].specialist_id = spec.specialist_id

\* C5: at most 3 specialist matches, none with 0 matched symptoms, in
\* non-increasing score order, and no omitted specialist scores strictly
\* higher than a returned one.
C5_SpecialistTopN ==
  Rendered =>
    /\ Len(rendered.specScores) <= SpecialistTopN
    /\ \A i \in DOMAIN rendered.specScores :
          /\ rendered.specScores[i].score > 0
          /\ Len(rendered.specScores[i].matched) > 0
    /\ NonIncreasing(rendered.specScores, "score")
    /\ \A k \in DOMAIN quizData.specialists :
          ~Returned(quizData.specialists[k]) =>
             \A i \in DOMAIN rendered.specScores :
                MatchCount(quizData.specialists[k]) <= rendered.specScores[i].score

C5_Witness ==
  /\ Rendered
  /\ Len(rendered.specScores) = SpecialistTopN
  /\ rendered.specScores[1].score > rendered.specScores[SpecialistTopN].score
  /\ \E k \in DOMAIN quizData.specialists :
        ~Returned(quizData.specialists[k]) /\ MatchCount(quizData.specialists[k]) > 0

RECURSIVE SumPct(_)
SumPct(rowIndexes) ==
  IF rowIndexes = {} THEN 0
  ELSE LET i == CHOOSE x \in rowIndexes : TRUE
       IN quizData.cooccurrences[i].co_occurrence_pct + SumPct(rowIndexes \ {i})

\* the mean of the percentages of y's evidence rows, rounded
MeanScore(y) == RoundDiv(SumPct(EvidenceRows(y)), Cardinality(EvidenceRows(y)))

MeetsSupport(y) == Cardinality(Supporters(y)) >= MinSupport

\* C6: at most 5 suggestions, each scored with the rounded mean of the
\* percentages accumulated for it, in non-increasing score order, no
\* left-out candidate that met the support threshold (evidence from at least
\* 2 distinct selected symptoms) scoring strictly higher than a returned one,
\* and no suggestion at all when no candidate meets the threshold.
C6_TopFiveByMean ==
  Rendered =>
    /\ Len(rendered.cooccurringSymptoms) <= RelatedTopN
    /\ \A y \in AllIds \ Range(selectedSymptoms) :
          \A i \in DOMAIN rendered.cooccurringSymptoms :
             rendered.cooccurringSymptoms[i].symptom_name = DisplayName(y)
               => rendered.cooccurringSymptoms[i].avg_pct = MeanScore(y)
    /\ NonIncreasing(rendered.cooccurringSymptoms, "avg_pct")
    /\ \A y \in AllIds \ Range(selectedSymptoms) :
          (MeetsSupport(y) /\ ~Suggested(y)) =>
             \A i \in DOMAIN rendered.cooccurringSymptoms :
                MeanScore(y) <= rendered.cooccurringSymptoms[i].avg_pct
    /\ (\A y \in AllIds \ Range(selectedSymptoms) : ~MeetsSupport(y)) =>
          rendered.cooccurringSymptoms = <<>>

\* C7: with an empty selection or with no life stage the render completes, and
\* with an empty selection its three lists are empty.
C7_FailSoft ==
  (rendered # NotRendered /\ (selectedSymptoms = <<>> \/ selectedStage = NullValue)) =>
     /\ Rendered
     /\ selectedSymptoms = <<>> =>
          /\ rendered.prevalenceResults = <<>>
          /\ rendered.cooccurringSymptoms = <<>>
          /\ rendered.specScores = <<>>

NameOrEmpty(id) ==
  IF ToString(id) \in DOMAIN quizData.prevalence
  THEN quizData.prevalence[ToString(id)].symptom_name
  ELSE ""

\* C9: a specialist's score is the size of the intersection of its symptom
\* ids with the selected ids, its matched list is exactly that intersection
\* (each id once), and each matched id is resolved to its name in the
\* overall-prevalence table, '' when the table lacks it.
C9_ScoreIsIntersection ==
  Rendered =>
    /\ \A k \in DOMAIN quizData.specialists :
          AllSpecScores(selectedSymptoms, quizData)[k].score
            = MatchCount(quizData.specialists[k])
    /\ \A i \in DOMAIN rendered.specScores :
          LET r == rendered.specScores[i]
              common == Range(r.symptom_ids) \cap Range(selectedSymptoms)
          IN /\ \E k \in DOMAIN quizData.specialists :
                   /\ quizData.specialists[k].specialist_id = r.specialist_id
                   /\ quizData.specialists[k].symptom_ids = r.symptom_ids
             /\ r.score = Cardinality(common)
             /\ Range(r.matched) = common
             /\ NoDuplicates(r.matched)
             /\ Len(r.matchedNames) = Len(r.matched)
             /\ \A j \in DOMAIN r.matched : r.matchedNames[j] = NameOrEmpty(r.matched[j])

C9_Witness ==
  /\ Rendered
  /\ ~NoDuplicates(selectedSymptoms)
  /\ \E i \in DOMAIN rendered.specScores :
        /\ rendered.specScores[i].score = 2
        /\ "" \in Range(rendered.specScores[i].matchedNames)

-----------------------------------------------------------------------------
(* Properties of the App, checked under Spec *)

\* C10: whenever the results screen is shown, the selection handed to
\* Results is non-empty and has no id twice, and a life stage is chosen.
C10_ResultsProps ==
  screen = "results" =>
    /\ Len(selectedSymptoms) >= 1
    /\ NoDuplicates(selectedSymptoms)
    /\ selectedStage # NullValue

C10_Witness ==
  /\ screen = "results"
  /\ Rendered
  /\ Len(selectedSymptoms) >= 2

-----------------------------------------------------------------------------
(* Properties of the co-occurrence scan, checked under SpecResults *)

BothSelected(row) ==
  row.symptom_id_a \in Range(selectedSymptoms) /\ row.symptom_id_b \in Range(selectedSymptoms)

BothUnselected(row) ==
  row.symptom_id_a \notin Range(selectedSymptoms) /\ row.symptom_id_b \notin Range(selectedSymptoms)

\* C11: no suggestion is a selected symptom, and the sum and count kept for
\* a candidate come from exactly the rows with one side selected and the
\* candidate, unselected, on the other side: a row whose two sides are both
\* selected or both unselected adds to no candidate.
C11_OnlyUnselectedSuggested ==
  Rendered =>
    LET scores == CoocScores(selectedSymptoms, quizData)
    IN /\ \A s \in Range(selectedSymptoms) : ~Suggested(s)
       /\ \A y \in AllIds :
             IF ToString(y) \in DOMAIN scores
             THEN /\ y \notin Range(selectedSymptoms)
                  /\ scores[ToString(y)].count = Cardinality(EvidenceRows(y))
                  /\ scores[ToString(y)].total = SumPct(EvidenceRows(y))
             ELSE y \in Range(selectedSymptoms) \/ EvidenceRows(y) = {}

C11_Witness ==
  /\ Rendered
  /\ rendered.cooccurringSymptoms # <<>>
  /\ \E i \in DOMAIN quizData.cooccurrences : BothSelected(quizData.cooccurrences[i])
  /\ \E i \in DOMAIN quizData.cooccurrences : BothUnselected(quizData.cooccurrences[i])

-----------------------------------------------------------------------------
(* Properties of the Quiz navigation, checked under Spec *)

\* C12: the category index stays within 0..(number of categories - 1); a
\* step of the symptoms step that leaves the Quiz on its stage step starts at
\* category 0 and keeps the chosen stage and the selected symptoms, and at
\* category 0 the back button does lead there; the results screen is entered
\* only while the last category is shown.
C12_CategoryNavigation ==
  /\ [](/\ currentCategory >= 0
        /\ quizData = NullValue => currentCategory = 0
        /\ quizData # NullValue => currentCategory <= Len(Categories) - 1)
  /\ [][(screen = "quiz" /\ step = "symptoms" /\ screen' = "quiz" /\ step' = "stage") =>
          /\ currentCategory = 0
          /\ currentCategory' = 0
          /\ quizStage' = quizStage
          /\ quizSymptoms' = quizSymptoms]_vars
  /\ [][(screen = "quiz" /\ step = "symptoms" /\ currentCategory = 0
           /\ screen' = "quiz" /\ quizSymptoms' = quizSymptoms
           /\ currentCategory' = 0) => step' = "stage"]_vars
  /\ [][(screen = "quiz" /\ screen' = "results") =>
          currentCategory = Len(Categories) - 1]_vars

\* back on the stage step with a stage and symptoms still chosen
C12_Witness ==
  /\ screen = "quiz"
  /\ step = "stage"
  /\ quizStage # NullValue
  /\ quizSymptoms # <<>>

====
